---- MODULE Spec2Model ----
(***************************************************************************)
(* Model of ecs_wasm_game/src/lib.rs: the ECS World (entity allocator and  *)
(* the Position / Size / Color storages), Game::init, Game::connect with   *)
(* its onmessage callback, and Game::handle_click.                         *)
(*                                                                         *)
(* Two sessions (Game objects) exist.  Under Spec only session 1 runs and  *)
(* its inbound payloads are chosen by the environment; under SpecSync both *)
(* sessions run and every payload a session puts on the wire is delivered  *)
(* to the other one in send order.                                         *)
(***************************************************************************)
EXTENDS Integers, Sequences, FiniteSets, TLC

(* ------------------------------ bounds --------------------------------- *)

\* Game.grid_size (8 in Game::new), scaled down to keep the state space finite.
GridSize == 2
\* How many times Game::init may be called on one session.
MaxInit == 2
\* How many times Game::connect may be called on one session.
MaxConnect == 1
\* How many input events (local clicks, environment payloads) a run of one
\* session may hold.
MaxEvents == 1
\* How many local clicks a run of the two synchronised sessions may hold.
MaxClicks == 3

(* ------------------------- program constants --------------------------- *)

\* let cell_size = 50.0
CellSize == 50
\* largest u8, the channel value of the initial white
U8Max == 255
\* Largest EntityId.  The code's is u32::MAX; TLC's integers end at 2^31 - 1,
\* which stands in for it (no run of Spec or SpecSync comes near either).
EntityIdMax == 2147483647

Sessions == {1, 2}
Peer(s) == 3 - s

(* --------------------------- component values -------------------------- *)

Position(x, y) == [x |-> x, y |-> y]
Size(w, h) == [width |-> w, height |-> h]
Color(r, g, b) == [r |-> r, g |-> g, b |-> b]

White == Color(U8Max, U8Max, U8Max)
Black == Color(0, 0, 0)

(* --------------------------- ComponentStorage -------------------------- *)

\* HashMap::new(): no key
ComponentStorage_new == <<>>

\* HashMap::insert: upsert
ComponentStorage_insert(st, entity, component) ==
    [k \in (DOMAIN st) \cup {entity} |-> IF k = entity THEN component ELSE st[k]]

\* get / get_mut return Some exactly for the keys of the map
ComponentStorage_has(st, entity) == entity \in DOMAIN st

(* -------------------------------- World -------------------------------- *)

World_new ==
    [next_entity_id |-> 0,
     positions |-> ComponentStorage_new,
     sizes |-> ComponentStorage_new,
     colors |-> ComponentStorage_new]

\* create_entity that returns the counter after the increment.
World_create_entity_PostIncrement(w) ==
    [world |-> [w EXCEPT !.next_entity_id = IF @ = EntityIdMax THEN 0 ELSE @ + 1],
     id |-> IF w.next_entity_id = EntityIdMax THEN 0 ELSE w.next_entity_id + 1]

\* let id = next_entity_id; next_entity_id += 1; id   (wrapping at the width)
World_create_entity(w) ==
    [world |-> [w EXCEPT !.next_entity_id = IF @ = EntityIdMax THEN 0 ELSE @ + 1],
     id |-> w.next_entity_id]

World_add_position(w, entity, position) ==
    [w EXCEPT !.positions = ComponentStorage_insert(w.positions, entity, position)]

World_add_size(w, entity, size) ==
    [w EXCEPT !.sizes = ComponentStorage_insert(w.sizes, entity, size)]

World_add_color(w, entity, color) ==
    [w EXCEPT !.colors = ComponentStorage_insert(w.colors, entity, color)]

(* ------------------------------ Game::init ----------------------------- *)

\* InitCell with the two coordinates of the Position exchanged.
InitCell_Transposed(w, x, y) ==
    LET c == World_create_entity(w)
        entity == c.id
        w1 == World_add_position(c.world, entity, Position(y * CellSize, x * CellSize))
        w2 == World_add_size(w1, entity, Size(CellSize, CellSize))
    IN  World_add_color(w2, entity, White)

\* InitCell that attaches no Size.
InitCell_NoSize(w, x, y) ==
    LET c == World_create_entity(w)
        entity == c.id
        w1 == World_add_position(c.world, entity, Position(x * CellSize, y * CellSize))
    IN  World_add_color(w1, entity, White)

\* The body of the inner loop: one entity with its three components.
InitCell(w, x, y) ==
    LET c == World_create_entity(w)
        entity == c.id
        w1 == World_add_position(c.world, entity, Position(x * CellSize, y * CellSize))
        w2 == World_add_size(w1, entity, Size(CellSize, CellSize))
    IN  World_add_color(w2, entity, White)

RECURSIVE InitRow(_, _, _, _)
\* for x in 0..grid_size
InitRow(w, n, y, x) ==
    IF x >= n THEN w ELSE InitRow(InitCell(w, x, y), n, y, x + 1)

RECURSIVE InitGrid(_, _, _)
\* for y in 0..grid_size
InitGrid(w, n, y) ==
    IF y >= n THEN w ELSE InitGrid(InitRow(w, n, y, 0), n, y + 1)

(* ------------------------ MessageType on the wire ---------------------- *)

\* enum MessageType { Click { x, y }, ColorUpdate { entity, r, g, b } }
MsgClick(x, y) ==
    [type |-> "Click", entity |-> 0, r |-> 0, g |-> 0, b |-> 0, x |-> x, y |-> y]

MsgColorUpdate(entity, r, g, b) ==
    [type |-> "ColorUpdate", entity |-> entity, r |-> r, g |-> g, b |-> b, x |-> 0, y |-> 0]

\* A JSON member of the payload's inner object: absent, a number or a string.
Absent == [t |-> "absent", v |-> 0]
JNum(n) == [t |-> "num", v |-> n]
JStr == [t |-> "str", v |-> 0]

\* What a MessageEvent carries: binary data, or text that is or is not JSON of
\* the shape {tag: {member: value, ...}}.
Payload(data, wellformed, tag, entity, r, g, b, x, y) ==
    [data |-> data, wellformed |-> wellformed, tag |-> tag,
     entity |-> entity, r |-> r, g |-> g, b |-> b, x |-> x, y |-> y]

\* serde_json::to_string(&message): externally tagged, one member per field
to_string(m) ==
    IF m.type = "ColorUpdate"
    THEN Payload("text", TRUE, "ColorUpdate",
                 JNum(m.entity), JNum(m.r), JNum(m.g), JNum(m.b), Absent, Absent)
    ELSE Payload("text", TRUE, "Click",
                 Absent, Absent, Absent, Absent, JNum(m.x), JNum(m.y))

\* serde accepts a member for an unsigned field iff it is an integer in range
IsUnsigned(j, max) == j.t = "num" /\ j.v >= 0 /\ j.v <= max

\* u32 and (on wasm32) usize members: every non-negative integer of the model
IsU32(j) == j.t = "num" /\ j.v >= 0

\* serde_json::from_str::<MessageType>(text): members of the other variant
\* are unknown fields and are ignored
from_str(p) ==
    IF ~p.wellformed
    THEN [ok |-> FALSE, msg |-> MsgClick(0, 0)]
    ELSE IF p.tag = "ColorUpdate" /\ IsU32(p.entity)
            /\ IsUnsigned(p.r, U8Max) /\ IsUnsigned(p.g, U8Max) /\ IsUnsigned(p.b, U8Max)
    THEN [ok |-> TRUE, msg |-> MsgColorUpdate(p.entity.v, p.r.v, p.g.v, p.b.v)]
    ELSE IF p.tag = "Click" /\ IsU32(p.x) /\ IsU32(p.y)
    THEN [ok |-> TRUE, msg |-> MsgClick(p.x.v, p.y.v)]
    ELSE [ok |-> FALSE, msg |-> MsgClick(0, 0)]

\* dyn_into_JsString without the type test.
dyn_into_Unchecked(p) == TRUE

\* event.data().dyn_into::<JsString>() is Ok exactly for text data
dyn_into_JsString(p) == p.data = "text"

\* JsValue::as_string() is Some exactly for a JS string
as_string_is_some(p) == p.data = "text"

(* ------------------------ Rc<RefCell<World>> --------------------------- *)

\* The borrow flag of the RefCell: "unused", "reading" or "writing".
\* borrow_mut() panics and try_borrow_mut() is Err unless the cell is unused.
RefCell_can_borrow_mut(flag) == flag = "unused"

\* borrow() panics and try_borrow() is Err while the cell is being written.
RefCell_can_borrow(flag) == flag # "writing"

RefCell_borrow_mut(flag) == "writing"

RefCell_borrow(flag) == "reading"

\* A guard that is forgotten instead of dropped: the flag stays as it is.
Ref_drop_Leaked(flag) == flag

\* The Ref or RefMut goes out of scope at the end of the handler's block.
Ref_drop(flag) == "unused"

(* ------------------------------ rendering ------------------------------ *)

\* format!("rgb({},{},{})", color.r, color.g, color.b)
FillStyle(color) == <<"rgb", color.r, color.g, color.b>>

\* fill_rect and stroke_rect of one entity
DrawnRect(pos, size, color) ==
    [x |-> pos.x, y |-> pos.y, width |-> size.width, height |-> size.height,
     fill |-> FillStyle(color), stroke |-> "black"]

RECURSIVE RenderLoop_SkipsLast(_, _, _)
\* RenderLoop that stops one entity early.
RenderLoop_SkipsLast(w, entity, cv) ==
    IF entity + 1 >= w.next_entity_id
    THEN cv
    ELSE RenderLoop_SkipsLast(w, entity + 1,
            IF /\ ComponentStorage_has(w.positions, entity)
               /\ ComponentStorage_has(w.sizes, entity)
               /\ ComponentStorage_has(w.colors, entity)
            THEN Append(cv, DrawnRect(w.positions[entity], w.sizes[entity], w.colors[entity]))
            ELSE cv)

RECURSIVE RenderLoop(_, _, _)
\* for entity in 0..world.next_entity_id, on the canvas cv
RenderLoop(w, entity, cv) ==
    IF entity >= w.next_entity_id
    THEN cv
    ELSE RenderLoop(w, entity + 1,
            IF /\ ComponentStorage_has(w.positions, entity)
               /\ ComponentStorage_has(w.sizes, entity)
               /\ ComponentStorage_has(w.colors, entity)
            THEN Append(cv, DrawnRect(w.positions[entity], w.sizes[entity], w.colors[entity]))
            ELSE cv)

\* clear_rect over the whole canvas
ClearedCanvas == <<>>

(* ------------------------- the onmessage callback ---------------------- *)

\* ApplyColorUpdate with insert in the place of get_mut.
ApplyColorUpdate_Upsert(w, m) ==
    [w EXCEPT !.colors = ComponentStorage_insert(w.colors, m.entity, Color(m.r, m.g, m.b))]

\* ApplyColorUpdate that keeps a Color an earlier update has set.
ApplyColorUpdate_FirstWins(w, m) ==
    IF ComponentStorage_has(w.colors, m.entity) /\ w.colors[m.entity] = White
    THEN [w EXCEPT !.colors[m.entity] = Color(m.r, m.g, m.b)]
    ELSE w

\* The ColorUpdate arm: colors.get_mut(entity), then the three assignments.
ApplyColorUpdate(w, m) ==
    IF ComponentStorage_has(w.colors, m.entity)
    THEN [w EXCEPT !.colors[m.entity] = Color(m.r, m.g, m.b)]
    ELSE w

\* The ColorUpdate arm of the closure: the update under try_borrow_mut, then
\* clear_rect, then the redraw under try_borrow.  Both guards are dropped at
\* the end of their if-let block.
ColorUpdateArm(w, flag, cv, m) ==
    LET w1 == IF RefCell_can_borrow_mut(flag) THEN ApplyColorUpdate(w, m) ELSE w
        f1 == IF RefCell_can_borrow_mut(flag) THEN Ref_drop(RefCell_borrow_mut(flag)) ELSE flag
        cv2 == IF RefCell_can_borrow(f1) THEN RenderLoop(w1, 0, ClearedCanvas) ELSE ClearedCanvas
        f2 == IF RefCell_can_borrow(f1) THEN Ref_drop(RefCell_borrow(f1)) ELSE f1
    IN  [world |-> w1, panic |-> FALSE, flag |-> f2, canvas |-> cv2]

\* A callback whose Click arm blackens entity 0.
onmessage_callback_ClickBlackens(w, flag, cv, p) ==
    IF ~dyn_into_JsString(p)
    THEN [world |-> w, panic |-> FALSE, flag |-> flag, canvas |-> cv]
    ELSE IF ~as_string_is_some(p)
    THEN [world |-> w, panic |-> TRUE, flag |-> flag, canvas |-> cv]
    ELSE LET d == from_str(p) IN
         IF d.ok
         THEN ColorUpdateArm(w, flag, cv,
                 IF d.msg.type = "ColorUpdate" THEN d.msg ELSE MsgColorUpdate(0, 0, 0, 0))
         ELSE [world |-> w, panic |-> FALSE, flag |-> flag, canvas |-> cv]

\* The closure of Game::connect, as a function of the World, its borrow flag,
\* the canvas and the payload: what it leaves of the three and whether it
\* panicked (the unwrap of as_string).
onmessage_callback(w, flag, cv, p) ==
    IF ~dyn_into_JsString(p)
    THEN [world |-> w, panic |-> FALSE, flag |-> flag, canvas |-> cv]
    ELSE IF ~as_string_is_some(p)
    THEN [world |-> w, panic |-> TRUE, flag |-> flag, canvas |-> cv]
    ELSE LET d == from_str(p) IN
         IF d.ok /\ d.msg.type = "ColorUpdate"
         THEN ColorUpdateArm(w, flag, cv, d.msg)
         ELSE [world |-> w, panic |-> FALSE, flag |-> flag, canvas |-> cv]

(* --------------------------- Game::handle_click ------------------------ *)

\* Contains without the test of the lower edge.
Contains_NoLowerEdge(pos, size, x, y) ==
    /\ x >= pos.x
    /\ x <= pos.x + size.width
    /\ y >= pos.y

\* x >= pos.x && x <= pos.x + size.width && y >= pos.y && y <= pos.y + size.height
Contains(pos, size, x, y) ==
    /\ x >= pos.x
    /\ x <= pos.x + size.width
    /\ y >= pos.y
    /\ y <= pos.y + size.height

\* send_with_str of a socket that keeps what it cannot send yet.
send_with_str_Queued(state, out, json) == Append(out, json)

\* WebSocket.send: queued for the peer when OPEN, an error when CONNECTING
\* (ignored by "let _ ="), discarded when the socket is closed.
send_with_str(state, out, json) ==
    IF state = "Open" THEN Append(out, json) ELSE out

\* A complement taken from 256 instead of 255, at the width of a u8.
Complement_From256(c) ==
    Color((U8Max + 1 - c.r) % (U8Max + 1), (U8Max + 1 - c.g) % (U8Max + 1),
          (U8Max + 1 - c.b) % (U8Max + 1))

\* 255 - channel, on each channel
Complement(c) == Color(U8Max - c.r, U8Max - c.g, U8Max - c.b)

\* ClickEntity that builds the message from the Color before the toggle.
ClickEntity_SendsOldColor(st, ws, entity, x, y) ==
    LET w == st.world IN
    IF /\ ComponentStorage_has(w.positions, entity)
       /\ ComponentStorage_has(w.sizes, entity)
       /\ Contains(w.positions[entity], w.sizes[entity], x, y)
       /\ ComponentStorage_has(w.colors, entity)
    THEN LET color == w.colors[entity]
             message == MsgColorUpdate(entity, color.r, color.g, color.b)
         IN  [world |-> [w EXCEPT !.colors[entity] = Complement(color)],
              wire |-> IF ws = "None" THEN st.wire
                       ELSE send_with_str(ws, st.wire, to_string(message))]
    ELSE st

\* ClickEntity that toggles only when the socket takes the message.
ClickEntity_ToggleIfSent(st, ws, entity, x, y) ==
    LET w == st.world IN
    IF /\ ComponentStorage_has(w.positions, entity)
       /\ ComponentStorage_has(w.sizes, entity)
       /\ Contains(w.positions[entity], w.sizes[entity], x, y)
       /\ ComponentStorage_has(w.colors, entity)
       /\ ws = "Open"
    THEN LET color == Complement(w.colors[entity])
             message == MsgColorUpdate(entity, color.r, color.g, color.b)
         IN  [world |-> [w EXCEPT !.colors[entity] = color],
              wire |-> send_with_str(ws, st.wire, to_string(message))]
    ELSE st

\* The body of the loop of handle_click for one entity.  st is the World and
\* the wire of the session; ws is "None" or the state of the socket self.ws.
ClickEntity(st, ws, entity, x, y) ==
    LET w == st.world IN
    IF /\ ComponentStorage_has(w.positions, entity)
       /\ ComponentStorage_has(w.sizes, entity)
       /\ Contains(w.positions[entity], w.sizes[entity], x, y)
       /\ ComponentStorage_has(w.colors, entity)
    THEN LET color == Complement(w.colors[entity])
             message == MsgColorUpdate(entity, color.r, color.g, color.b)
         IN  [world |-> [w EXCEPT !.colors[entity] = color],
              wire |-> IF ws = "None" THEN st.wire
                       ELSE send_with_str(ws, st.wire, to_string(message))]
    ELSE st

RECURSIVE ClickLoop(_, _, _, _, _)
\* for entity in 0..world.next_entity_id
ClickLoop(st, ws, entity, x, y) ==
    IF entity >= st.world.next_entity_id
    THEN st
    ELSE ClickLoop(ClickEntity(st, ws, entity, x, y), ws, entity + 1, x, y)

(* ------------------------------- state --------------------------------- *)

VARIABLES
    world,    \* world[s]: the World behind Game.world of session s
    socks,    \* socks[s]: ready states of the WebSockets session s has created;
              \*           Game.ws is the last one, None when there is none
    wire,     \* wire[s]: payloads the sockets of session s accepted for sending
              \*          and the peer has not received yet
    trapped,  \* trapped[s]: a handler of session s panicked
    inits,    \* inits[s]: calls of Game::init so far
    events,   \* local clicks and environment payloads so far
    raced,    \* some session clicked while a payload addressed to it was in flight
    last,     \* the last operation and its input
    canvas,   \* canvas[s]: the rectangles drawn on the canvas of session s since
              \*            it was last cleared
    borrow,   \* borrow[s]: the borrow flag of the RefCell around world[s]
    exhausted \* exhausted[s]: create_entity was called with the counter at its
              \*               largest value

vars == <<world, socks, wire, trapped, inits, events, raced, last, canvas, borrow, exhausted>>

NoPayload == Payload("none", FALSE, "", Absent, Absent, Absent, Absent, Absent, Absent)

Op(op, s, x, y, p) == [op |-> op, s |-> s, x |-> x, y |-> y, payload |-> p]

\* Game.ws as the click handler sees it: "None" or the socket's ready state
WsState(s) == IF socks[s] = <<>> THEN "None" ELSE socks[s][Len(socks[s])]

\* Some socket whose onmessage is the callback of session s can receive.
CanReceive(s) == \E i \in DOMAIN socks[s] : socks[s][i] = "Open"

(* ------------------------------- inputs -------------------------------- *)

\* Click coordinates relative to the canvas (client_x - rect.left): left of the
\* grid, its first line, the centre of the first column, the line the first
\* column shares with the second, the centre of the last column, the last
\* line, right of the grid (and the same for rows).
Coords ==
    {-1, 0, CellSize \div 2, CellSize,
     GridSize * CellSize - CellSize \div 2, GridSize * CellSize, GridSize * CellSize + 1}

\* Entity ids an inbound ColorUpdate may name: the first and the last id of
\* one grid and the first id beyond it.
MsgEntities == {0, GridSize * GridSize - 1, GridSize * GridSize}

\* Click points of the synchronised sessions: the centre of cell 0 and the
\* grid lines it shares with its neighbours.
SyncCoords == {CellSize \div 2, CellSize}

\* Colours an inbound ColorUpdate may carry.
MsgColors == {Black, Color(10, 20, 30)}

WellFormedUpdates ==
    {to_string(MsgColorUpdate(e, c.r, c.g, c.b)) : e \in MsgEntities, c \in MsgColors}

ClickPayloads ==
    {to_string(MsgClick(CellSize \div 2, CellSize \div 2)),
     Payload("text", TRUE, "Click", JNum(0), JNum(0), JNum(0), JNum(0),
             JNum(CellSize \div 2), JNum(CellSize \div 2))}

\* Payloads that are no message: binary data, text that is no JSON, an unknown
\* tag, a missing member, a member of the wrong type or out of range.
BadPayloads ==
    {Payload("binary", FALSE, "", Absent, Absent, Absent, Absent, Absent, Absent),
     Payload("text", FALSE, "", Absent, Absent, Absent, Absent, Absent, Absent),
     Payload("text", TRUE, "Toggle", JNum(0), JNum(0), JNum(0), JNum(0), Absent, Absent),
     Payload("text", TRUE, "ColorUpdate", JNum(0), JNum(0), JNum(0), Absent, Absent, Absent),
     Payload("text", TRUE, "ColorUpdate", JNum(0), JStr, JNum(0), JNum(0), Absent, Absent),
     Payload("text", TRUE, "ColorUpdate", JNum(0), JNum(U8Max + 1), JNum(0), JNum(0), Absent, Absent),
     Payload("text", TRUE, "ColorUpdate", JNum(-1), JNum(0), JNum(0), JNum(0), Absent, Absent),
     Payload("text", TRUE, "Click", Absent, Absent, Absent, Absent, JNum(0), Absent)}

Payloads == WellFormedUpdates \cup ClickPayloads \cup BadPayloads

(* ------------------------------- actions ------------------------------- *)

\* Game::new for both sessions
Init ==
    /\ world = [s \in Sessions |-> World_new]
    /\ socks = [s \in Sessions |-> <<>>]
    /\ wire = [s \in Sessions |-> <<>>]
    /\ trapped = [s \in Sessions |-> FALSE]
    /\ inits = [s \in Sessions |-> 0]
    /\ events = 0
    /\ raced = FALSE
    /\ last = Op("new", 0, 0, 0, NoPayload)
    /\ canvas = [s \in Sessions |-> ClearedCanvas]
    /\ borrow = [s \in Sessions |-> "unused"]
    /\ exhausted = [s \in Sessions |-> FALSE]

\* Game::init; borrow_mut panics when the World is borrowed
Game_init(s) ==
    /\ ~trapped[s]
    /\ inits[s] < MaxInit
    /\ IF RefCell_can_borrow_mut(borrow[s])
       THEN /\ world' = [world EXCEPT ![s] = InitGrid(world[s], GridSize, 0)]
            /\ borrow' = [borrow EXCEPT ![s] = Ref_drop(RefCell_borrow_mut(@))]
            /\ UNCHANGED trapped
       ELSE /\ trapped' = [trapped EXCEPT ![s] = TRUE]
            /\ UNCHANGED <<world, borrow>>
    /\ inits' = [inits EXCEPT ![s] = @ + 1]
    /\ last' = Op("init", s, 0, 0, NoPayload)
    /\ UNCHANGED <<socks, wire, events, raced, canvas, exhausted>>

\* Game::render; borrow panics when the World is being written
Game_render(s) ==
    /\ ~trapped[s]
    /\ IF RefCell_can_borrow(borrow[s])
       THEN /\ canvas' = [canvas EXCEPT ![s] = RenderLoop(world[s], 0, ClearedCanvas)]
            /\ borrow' = [borrow EXCEPT ![s] = Ref_drop(RefCell_borrow(@))]
            /\ UNCHANGED trapped
       ELSE /\ canvas' = [canvas EXCEPT ![s] = ClearedCanvas]
            /\ trapped' = [trapped EXCEPT ![s] = TRUE]
            /\ UNCHANGED borrow
    /\ last' = Op("render", s, 0, 0, NoPayload)
    /\ UNCHANGED <<world, socks, wire, inits, events, raced, exhausted>>

\* Game::connect; WebSocket::new(url)? returns early when the url is refused
Game_connect(s, url_ok) ==
    /\ ~trapped[s]
    /\ Len(socks[s]) < MaxConnect
    /\ socks' = IF url_ok THEN [socks EXCEPT ![s] = Append(@, "Connecting")] ELSE socks
    /\ last' = Op(IF url_ok THEN "connect" ELSE "connect_err", s, 0, 0, NoPayload)
    /\ UNCHANGED <<world, wire, trapped, inits, events, raced, canvas, borrow, exhausted>>

\* The browser completes the handshake of a socket.
SocketOpen(s, i) ==
    /\ i \in DOMAIN socks[s]
    /\ socks[s][i] = "Connecting"
    /\ socks' = [socks EXCEPT ![s][i] = "Open"]
    /\ last' = Op("open", s, 0, 0, NoPayload)
    /\ UNCHANGED <<world, wire, trapped, inits, events, raced, canvas, borrow, exhausted>>

\* The connection fails or is closed by either side.
SocketClose(s, i) ==
    /\ i \in DOMAIN socks[s]
    /\ socks[s][i] \in {"Connecting", "Open"}
    /\ socks' = [socks EXCEPT ![s][i] = "Closed"]
    /\ last' = Op("close", s, 0, 0, NoPayload)
    /\ UNCHANGED <<world, wire, trapped, inits, events, raced, canvas, borrow, exhausted>>

\* Game::handle_click with the click at (x, y) of the canvas; borrow_mut
\* panics when the World is borrowed.  The method draws nothing: the canvas
\* of the step is set by the listener that calls it.
Game_handle_click(s, x, y) ==
    /\ ~trapped[s]
    /\ IF RefCell_can_borrow_mut(borrow[s])
       THEN LET st == ClickLoop([world |-> world[s], wire |-> wire[s]], WsState(s), 0, x, y)
            IN  /\ world' = [world EXCEPT ![s] = st.world]
                /\ wire' = [wire EXCEPT ![s] = st.wire]
                /\ borrow' = [borrow EXCEPT ![s] = Ref_drop(RefCell_borrow_mut(@))]
                /\ UNCHANGED trapped
       ELSE /\ trapped' = [trapped EXCEPT ![s] = TRUE]
            /\ UNCHANGED <<world, wire, borrow>>
    /\ events' = events + 1
    /\ raced' = (raced \/ wire[Peer(s)] # <<>>)
    /\ last' = Op("click", s, x, y, NoPayload)
    /\ UNCHANGED <<socks, inits, exhausted>>

\* The click listener of the page: handle_click, then render, before the
\* next event is taken.
ClickListener(s, x, y) ==
    /\ Game_handle_click(s, x, y)
    /\ canvas' = [canvas EXCEPT ![s] =
                     IF trapped'[s] THEN @
                     ELSE IF RefCell_can_borrow(borrow'[s])
                          THEN RenderLoop(world'[s], 0, ClearedCanvas)
                          ELSE ClearedCanvas]

\* What the onmessage callback of session s does with payload p.
Receive(s, p) ==
    /\ ~trapped[s]
    /\ CanReceive(s)
    /\ LET res == onmessage_callback(world[s], borrow[s], canvas[s], p)
       IN  /\ world' = [world EXCEPT ![s] = res.world]
           /\ trapped' = [trapped EXCEPT ![s] = res.panic]
           /\ borrow' = [borrow EXCEPT ![s] = res.flag]
           /\ canvas' = [canvas EXCEPT ![s] = res.canvas]
    /\ last' = Op("message", s, 0, 0, p)
    /\ UNCHANGED <<socks, inits, raced, exhausted>>

\* The environment (the server) sends payload p to session s.
OnMessage(s, p) ==
    /\ events < MaxEvents
    /\ Receive(s, p)
    /\ events' = events + 1
    /\ UNCHANGED wire

\* Deliver whose receiver sends the payload on again.
Deliver_Echo(s) ==
    /\ wire[Peer(s)] # <<>>
    /\ Receive(s, Head(wire[Peer(s)]))
    /\ wire' = [wire EXCEPT ![Peer(s)] = Tail(@), ![s] = Append(@, Head(wire[Peer(s)]))]
    /\ UNCHANGED events

\* The oldest payload session Peer(s) sent reaches session s.
Deliver(s) ==
    /\ wire[Peer(s)] # <<>>
    /\ Receive(s, Head(wire[Peer(s)]))
    /\ wire' = [wire EXCEPT ![Peer(s)] = Tail(@)]
    /\ UNCHANGED events

\* One session; the environment chooses what it receives.
Next ==
    \/ Game_init(1)
    \/ \E url_ok \in BOOLEAN : Game_connect(1, url_ok)
    \/ \E i \in 1..MaxConnect : SocketOpen(1, i)
    \/ \E i \in 1..MaxConnect : SocketClose(1, i)
    \/ \E x \in Coords, y \in Coords : events < MaxEvents /\ ClickListener(1, x, y)
    \/ \E p \in Payloads : OnMessage(1, p)
    \/ Game_render(1)

Spec == Init /\ [][Next]_vars

\* Two sessions after Game::new, Game::init and Game::connect, both sockets open.
InitSync ==
    /\ world = [s \in Sessions |-> InitGrid(World_new, GridSize, 0)]
    /\ socks = [s \in Sessions |-> <<"Open">>]
    /\ wire = [s \in Sessions |-> <<>>]
    /\ trapped = [s \in Sessions |-> FALSE]
    /\ inits = [s \in Sessions |-> 1]
    /\ events = 0
    /\ raced = FALSE
    /\ last = Op("open", 2, 0, 0, NoPayload)
    /\ canvas = [s \in Sessions |-> RenderLoop(world[s], 0, ClearedCanvas)]
    /\ borrow = [s \in Sessions |-> "unused"]
    /\ exhausted = [s \in Sessions |-> FALSE]

NextSync ==
    \/ \E s \in Sessions : \E x \in SyncCoords, y \in SyncCoords :
          events < MaxClicks /\ ClickListener(s, x, y)
    \/ \E s \in Sessions : Deliver(s)

SpecSync == InitSync /\ [][NextSync]_vars

(* ------------- two sessions whose message events keep coming ---------- *)

MaxFairClicks == 4

\* Clicks of either session at the centre of cell 0, and deliveries.
NextFair ==
    \/ \E s \in Sessions :
          events < MaxFairClicks /\ ClickListener(s, CellSize \div 2, CellSize \div 2)
    \/ \E s \in Sessions : Deliver(s)

\* The host dispatches the message event of every payload that arrived.
SpecFair == InitSync /\ [][NextFair]_vars /\ WF_vars(\E s \in Sessions : Deliver(s))

(* ------------------- one session, updates one after another ------------ *)

MaxUpdates == 4

\* Session 1 after init, connect, the open of its socket and a render.
InitInbound ==
    /\ world = [s \in Sessions |->
                   IF s = 1 THEN InitGrid(World_new, GridSize, 0) ELSE World_new]
    /\ socks = [s \in Sessions |-> IF s = 1 THEN <<"Open">> ELSE <<>>]
    /\ wire = [s \in Sessions |-> <<>>]
    /\ trapped = [s \in Sessions |-> FALSE]
    /\ inits = [s \in Sessions |-> IF s = 1 THEN 1 ELSE 0]
    /\ events = 0
    /\ raced = FALSE
    /\ last = Op("render", 1, 0, 0, NoPayload)
    /\ canvas = [s \in Sessions |-> RenderLoop(world[s], 0, ClearedCanvas)]
    /\ borrow = [s \in Sessions |-> "unused"]
    /\ exhausted = [s \in Sessions |-> FALSE]

\* ColorUpdates the server sends: the colours of MsgColors and white again.
InboundUpdates ==
    {to_string(MsgColorUpdate(e, c.r, c.g, c.b)) : e \in MsgEntities, c \in MsgColors \cup {White}}

\* The server sends one ColorUpdate after another.
NextInbound ==
    \E p \in InboundUpdates :
       /\ events < MaxUpdates
       /\ Receive(1, p)
       /\ events' = events + 1
       /\ UNCHANGED wire

SpecInbound == InitInbound /\ [][NextInbound]_vars

(* ------------------ one cell, any colour, clicked again ---------------- *)

MaxToggles == 2

ChannelSamples == {0, 1, 127, U8Max}

ToggleColors ==
    {Color(r, g, b) : r \in 0..U8Max, g \in ChannelSamples, b \in ChannelSamples}

\* Both sessions after init, an inbound ColorUpdate that gave entity 0 the
\* colour c, a render, and the close of the socket.  Session 2 stays idle and
\* keeps the colour the clicks of session 1 started from.
InitToggle ==
    \E c \in ToggleColors :
       /\ world = [s \in Sessions |->
                      [InitGrid(World_new, GridSize, 0) EXCEPT !.colors[0] = c]]
       /\ socks = [s \in Sessions |-> <<"Closed">>]
       /\ wire = [s \in Sessions |-> <<>>]
       /\ trapped = [s \in Sessions |-> FALSE]
       /\ inits = [s \in Sessions |-> 1]
       /\ events = 0
       /\ raced = FALSE
       /\ last = Op("close", 2, 0, 0, NoPayload)
       /\ canvas = [s \in Sessions |-> RenderLoop(world[s], 0, ClearedCanvas)]
       /\ borrow = [s \in Sessions |-> "unused"]
       /\ exhausted = [s \in Sessions |-> FALSE]

\* Clicks of session 1 at the centre of cell 0.
NextToggle ==
    events < MaxToggles /\ ClickListener(1, CellSize \div 2, CellSize \div 2)

SpecToggle == InitToggle /\ [][NextToggle]_vars

(* --------------------- the World API at the id limits ------------------ *)

AllocSpan == 40

MaxAlloc == 3

AllocStarts == (0..AllocSpan) \cup {EntityIdMax - k : k \in 0..AllocSpan}

\* A World on which create_entity has been called n times and nothing else.
InitAlloc ==
    \E n \in AllocStarts :
       /\ world = [s \in Sessions |->
                      IF s = 1 THEN [World_new EXCEPT !.next_entity_id = n] ELSE World_new]
       /\ socks = [s \in Sessions |-> <<>>]
       /\ wire = [s \in Sessions |-> <<>>]
       /\ trapped = [s \in Sessions |-> FALSE]
       /\ inits = [s \in Sessions |-> 0]
       /\ events = 0
       /\ raced = FALSE
       /\ last = IF n = 0 THEN Op("new", 0, 0, 0, NoPayload)
                          ELSE Op("create_entity", 1, n - 1, 0, NoPayload)
       /\ canvas = [s \in Sessions |-> ClearedCanvas]
       /\ borrow = [s \in Sessions |-> "unused"]
       /\ exhausted = [s \in Sessions |-> FALSE]

\* World::create_entity on the World of session s.  `next_entity_id += 1` at
\* the largest value panics in a build with overflow checks and wraps in a
\* build without them; last.x carries the id the call returned.
create_entity(s, overflow_checks) ==
    /\ ~trapped[s]
    /\ IF world[s].next_entity_id = EntityIdMax /\ overflow_checks
       THEN /\ trapped' = [trapped EXCEPT ![s] = TRUE]
            /\ last' = Op("create_entity_panic", s, 0, 0, NoPayload)
            /\ UNCHANGED world
       ELSE LET res == World_create_entity(world[s])
            IN  /\ world' = [world EXCEPT ![s] = res.world]
                /\ last' = Op("create_entity", s, res.id, 0, NoPayload)
                /\ UNCHANGED trapped
    /\ exhausted' = [exhausted EXCEPT ![s] = @ \/ world[s].next_entity_id = EntityIdMax]
    /\ events' = events + 1
    /\ UNCHANGED <<socks, wire, inits, raced, canvas, borrow>>

NextAlloc ==
    \E overflow_checks \in BOOLEAN : events < MaxAlloc /\ create_entity(1, overflow_checks)

SpecAlloc == InitAlloc /\ [][NextAlloc]_vars

(* --------------------- vocabulary of the properties -------------------- *)

\* Every action records its input in last, so a step of handle_click at
\* (x, y) has last'.x = x and last'.y = y and a step of the callback on
\* payload p has last'.payload = p: the properties below look the input of a
\* step up there and then require the step to be that action.

Cells == 0..(GridSize - 1)

\* The id the grid gives the cell at column cx, row cy.
CellId(cx, cy) == cy * GridSize + cx

\* (x, y) lies strictly inside the rectangle of cell (cx, cy).
StrictlyInside(cx, cy, x, y) ==
    /\ cx * CellSize < x /\ x < (cx + 1) * CellSize
    /\ cy * CellSize < y /\ y < (cy + 1) * CellSize

\* (x, y) lies outside every cell rectangle of the grid.
OutsideGrid(x, y) ==
    \/ x < 0 \/ x > GridSize * CellSize
    \/ y < 0 \/ y > GridSize * CellSize

\* The entities of World w whose rectangle, boundary included, holds (x, y).
RectsAt(w, x, y) ==
    {e \in (DOMAIN w.positions) \cap (DOMAIN w.sizes) :
        /\ w.positions[e].x <= x /\ x <= w.positions[e].x + w.sizes[e].width
        /\ w.positions[e].y <= y /\ y <= w.positions[e].y + w.sizes[e].height}

Lowest(S) == CHOOSE e \in S : \A f \in S : e <= f

\* The text {"ColorUpdate":{"entity":e,"r":..,"g":..,"b":..}}
ColorUpdateText(e, c) ==
    Payload("text", TRUE, "ColorUpdate", JNum(e), JNum(c.r), JNum(c.g), JNum(c.b), Absent, Absent)

NoneInFlight == wire[1] = <<>> /\ wire[2] = <<>>

(* -------------------------------- C1 ----------------------------------- *)

\* C1: after one call of init on the empty World there are exactly
\* GridSize * GridSize entities, and the entity with id y * GridSize + x has
\* Position (x * CellSize, y * CellSize), Size (CellSize, CellSize) and, until
\* an event changes it, Color (255, 255, 255); the mapping is a function of
\* GridSize and CellSize alone, so independent sessions agree on it.
C1_InitBuildsGrid ==
    inits[1] = 1 =>
        /\ world[1].next_entity_id = GridSize * GridSize
        /\ DOMAIN world[1].positions = 0..(GridSize * GridSize - 1)
        /\ DOMAIN world[1].sizes = 0..(GridSize * GridSize - 1)
        /\ DOMAIN world[1].colors = 0..(GridSize * GridSize - 1)
        /\ \A cy \in Cells, cx \in Cells :
              /\ world[1].positions[CellId(cx, cy)] = [x |-> cx * 50, y |-> cy * 50]
              /\ world[1].sizes[CellId(cx, cy)] = [width |-> 50, height |-> 50]
              /\ events = 0 => world[1].colors[CellId(cx, cy)] = [r |-> 255, g |-> 255, b |-> 255]

C1_Witness ==
    /\ last.op = "init"
    /\ inits[1] = 1
    /\ world[1].next_entity_id = GridSize * GridSize
    /\ world[1].positions[GridSize * GridSize - 1].x = (GridSize - 1) * CellSize

(* -------------------------------- C2 ----------------------------------- *)

\* C2 as claimed: whenever no payload is in flight, both sessions hold the
\* same Color for every entity.
C2_AlwaysConverged ==
    NoneInFlight => world[1].colors = world[2].colors

\* C2 as amended: whenever no payload is in flight, both sessions hold the
\* same Color for every entity, provided no session clicked while a payload
\* addressed to it was still in flight.
C2_ConvergedUnlessRaced ==
    (NoneInFlight /\ ~raced) => world[1].colors = world[2].colors

C2_Witness ==
    /\ NoneInFlight
    /\ ~raced
    /\ events >= 2
    /\ last.op = "message"
    /\ \E e \in DOMAIN world[1].colors :
          world[1].colors[e] = Black /\ world[2].colors[e] = Black

(* -------------------------------- C3 ----------------------------------- *)

\* C3: on a grid initialised once, a click at a point on the boundary shared
\* by two or more cells toggles the Color of the lowest-id cell holding the
\* point and changes no other Color.
C3_BoundaryTogglesLowestOnly ==
    [][\A x \in {last'.x}, y \in {last'.y} :
          (/\ inits[1] = 1
           /\ Game_handle_click(1, x, y)
           /\ Cardinality(RectsAt(world[1], x, y)) >= 2)
          => world'[1].colors =
                [world[1].colors EXCEPT ![Lowest(RectsAt(world[1], x, y))] = Complement(@)]
      ]_vars

(* -------------------------------- C4 ----------------------------------- *)

\* C4: on a grid initialised once, a click strictly inside the rectangle of
\* cell (cx, cy) complements the Color of entity cy * GridSize + cx and changes
\* no other Color; a click outside every rectangle changes no Color and puts
\* nothing on the wire.
C4_InsideTogglesOneOutsideNone ==
    [][\A x \in {last'.x}, y \in {last'.y} :
          (inits[1] = 1 /\ Game_handle_click(1, x, y))
          => /\ \A cx \in Cells, cy \in Cells :
                   StrictlyInside(cx, cy, x, y)
                   => world'[1].colors =
                         [world[1].colors EXCEPT ![CellId(cx, cy)] =
                             [r |-> 255 - @.r, g |-> 255 - @.g, b |-> 255 - @.b]]
             /\ OutsideGrid(x, y)
                   => world'[1].colors = world[1].colors /\ wire' = wire
      ]_vars

C4_Witness ==
    /\ last.op = "click"
    /\ inits[1] = 1
    /\ StrictlyInside(GridSize - 1, GridSize - 1, last.x, last.y)
    /\ world[1].colors[CellId(GridSize - 1, GridSize - 1)] = Black
    /\ \A e \in DOMAIN world[1].colors :
          e # CellId(GridSize - 1, GridSize - 1) => world[1].colors[e] = White

(* -------------------------------- C5 ----------------------------------- *)

C6_UnknownEntityIgnored ==
    [][\A p \in {last'.payload} \cap WellFormedUpdates :
          (OnMessage(1, p) /\ p.entity.v >= world[1].next_entity_id)
          => world' = world
      ]_vars

C6_Witness ==
    /\ last.op = "message"
    /\ last.payload \in WellFormedUpdates
    /\ inits[1] = 1
    /\ last.payload.entity.v >= world[1].next_entity_id
    /\ world[1].next_entity_id = GridSize * GridSize

(* -------------------------------- C7 ----------------------------------- *)

\* C7: a payload that is no message (binary data, text that is no JSON, an
\* unknown tag, a missing, mistyped or out-of-range member) leaves the World
\* as it was and the handler returns without a panic.
C7_UndecodableIgnored ==
    [][\A p \in {last'.payload} \cap BadPayloads :
          OnMessage(1, p) => (world' = world /\ ~trapped'[1])
      ]_vars

C7_Witness ==
    /\ last.op = "message"
    /\ last.payload \in BadPayloads
    /\ last.payload.data = "binary"
    /\ inits[1] >= 1
    /\ ~trapped[1]

(* -------------------------------- C8 ----------------------------------- *)

\* C8: a click complements the Color of every entity it hits whatever the
\* transport is: none attached, a socket that is not open, a send that fails.
C8_ToggleWhateverTransport ==
    [][\A x \in {last'.x}, y \in {last'.y} :
          Game_handle_click(1, x, y)
          => \A e \in RectsAt(world[1], x, y) \cap DOMAIN world[1].colors :
                world'[1].colors[e] =
                   [r |-> 255 - world[1].colors[e].r,
                    g |-> 255 - world[1].colors[e].g,
                    b |-> 255 - world[1].colors[e].b]
      ]_vars

\* A click while the socket was still connecting: the send failed.
C8_Witness ==
    /\ last.op = "click"
    /\ WsState(1) = "Connecting"
    /\ inits[1] = 1
    /\ StrictlyInside(0, 0, last.x, last.y)
    /\ world[1].colors[0] = Black
    /\ wire[1] = <<>>

(* -------------------------------- C9 ----------------------------------- *)

\* C9: the wire of a session changes only in a click made while Game.ws is
\* Open, and then exactly by the updates of the entities that click toggled:
\* an update produced while the socket is not Open reaches no peer, neither
\* at once nor after the socket opens.
C9_NotOpenDropped ==
    [][wire'[1] # wire[1]
       => /\ WsState(1) = "Open"
          /\ \E x \in {last'.x}, y \in {last'.y} :
                /\ Game_handle_click(1, x, y)
                /\ Len(wire'[1]) = Len(wire[1]) + Cardinality(RectsAt(world[1], x, y))
                /\ \A i \in (Len(wire[1]) + 1)..Len(wire'[1]) :
                      \E e \in RectsAt(world[1], x, y) :
                         wire'[1][i] = ColorUpdateText(e, world'[1].colors[e])
      ]_vars

\* A click toggled a cell while the socket was connecting; the socket opened
\* afterwards and nothing is on the wire.
C9_Witness ==
    /\ last.op = "open"
    /\ WsState(1) = "Open"
    /\ events = 1
    /\ \E e \in DOMAIN world[1].colors : world[1].colors[e] = Black
    /\ wire[1] = <<>>

(* -------------------------------- C10 ---------------------------------- *)

\* C10: once init has run, the number of allocated entities is
\* GridSize * GridSize in every reachable state.
C10_EntityCountFixed ==
    inits[1] >= 1 => world[1].next_entity_id = GridSize * GridSize

(* -------------------------------- C11 ---------------------------------- *)

\* C11: two clicks at the same interior point of a cell, nothing else touching
\* the cell in between, give it back the colour it started with, for every
\* starting r in 0..255 (and sampled g, b); after one click every channel is
\* 255 minus what it was, and no channel ever leaves 0..255.
C11_DoubleToggleIsIdentity ==
    LET start == world[2].colors[0]
        now == world[1].colors[0]
    IN  /\ events % 2 = 0 => now = start
        /\ events % 2 = 1 =>
              /\ now.r = 255 - start.r
              /\ now.g = 255 - start.g
              /\ now.b = 255 - start.b
        /\ now.r \in 0..255 /\ now.g \in 0..255 /\ now.b \in 0..255

\* Entity 0 started from (200, 127, 1), was clicked twice and shows it again.
C11_Witness ==
    /\ events = 2
    /\ last.op = "click"
    /\ world[2].colors[0] = [r |-> 200, g |-> 127, b |-> 1]
    /\ world[1].colors[0] = [r |-> 200, g |-> 127, b |-> 1]

(* -------------------------------- C12 ---------------------------------- *)

\* C12: a call of create_entity with the counter at its largest value aborts:
\* the counter is not wrapped to 0, and neither that call nor a later one
\* hands out an id.
C12_ExhaustionAborts ==
    [][\A overflow_checks \in BOOLEAN :
          (/\ create_entity(1, overflow_checks)
           /\ (world[1].next_entity_id = EntityIdMax \/ exhausted[1]))
          => /\ trapped'[1]
             /\ world'[1].next_entity_id # 0
             /\ last'.op # "create_entity"
      ]_vars

(* -------------------------------- C13 ---------------------------------- *)

\* C13: while no call has met the counter at its largest value, a call of
\* create_entity returns the counter, adds one to it, and returns more than
\* the call before it did; the counter never decreases.  Ids returned are
\* therefore 0, 1, 2, ... and pairwise different.
C13_IdsStrictlyIncrease ==
    [][/\ ~exhausted'[1] => world'[1].next_entity_id >= world[1].next_entity_id
       /\ \A overflow_checks \in BOOLEAN :
             (/\ create_entity(1, overflow_checks)
              /\ ~exhausted[1]
              /\ world[1].next_entity_id < EntityIdMax)
             => /\ last'.op = "create_entity"
                /\ last'.x = world[1].next_entity_id
                /\ world'[1].next_entity_id = world[1].next_entity_id + 1
                /\ last.op = "create_entity" => last'.x = last.x + 1
                /\ last.op = "new" => last'.x = 0
      ]_vars

\* Three calls on a new World returned 0, 1 and 2.
C13_Witness ==
    /\ events = 3
    /\ last.op = "create_entity"
    /\ last.x = 2
    /\ world[1].next_entity_id = 3
    /\ ~exhausted[1]

(* -------------------------------- C14 ---------------------------------- *)

\* C14: in every state the session operations reach, an entity with a Color
\* has a Position and a Size, and the entities that have a component are
\* exactly the ids below next_entity_id.
C14_NoPartialEntity ==
    LET w == world[1] IN
    /\ DOMAIN w.colors \subseteq (DOMAIN w.positions) \cap (DOMAIN w.sizes)
    /\ (DOMAIN w.positions) \cup (DOMAIN w.sizes) \cup (DOMAIN w.colors)
          = 0..(w.next_entity_id - 1)

\* Two runs of init and an inbound update that was applied.
C14_Witness ==
    /\ inits[1] = 2
    /\ last.op = "message"
    /\ last.payload \in WellFormedUpdates
    /\ world[1].next_entity_id = 2 * GridSize * GridSize
    /\ world[1].colors[0] = Black

(* -------------------------------- C15 ---------------------------------- *)

\* C15: an inbound ColorUpdate { entity, r, g, b } whose entity has a Color
\* leaves that entity with exactly (r, g, b), whatever earlier updates made
\* of it, and every other entity with the Color it had.
C15_UpdateOverwritesOneColor ==
    [][\A p \in {last'.payload} \cap InboundUpdates :
          (Receive(1, p) /\ p.entity.v \in DOMAIN world[1].colors)
          => /\ world'[1].colors[p.entity.v] = [r |-> p.r.v, g |-> p.g.v, b |-> p.b.v]
             /\ DOMAIN world'[1].colors = DOMAIN world[1].colors
             /\ \A f \in DOMAIN world[1].colors \ {p.entity.v} :
                   world'[1].colors[f] = world[1].colors[f]
      ]_vars

\* Four updates; the last one named entity 0 and (10, 20, 30), and an
\* earlier one had made the last cell black.
C15_Witness ==
    /\ events = MaxUpdates
    /\ last.op = "message"
    /\ last.payload = to_string(MsgColorUpdate(0, 10, 20, 30))
    /\ world[1].colors[0] = [r |-> 10, g |-> 20, b |-> 30]
    /\ world[1].colors[GridSize * GridSize - 1] = Black

(* -------------------------------- C16 ---------------------------------- *)

\* The canvas of session s shows one rectangle per entity, at the entity's
\* Position and Size, filled with the entity's Color.
Displayed(s) ==
    /\ Len(canvas[s]) = world[s].next_entity_id
    /\ \A e \in DOMAIN world[s].colors :
          /\ canvas[s][e + 1].fill
                = <<"rgb", world[s].colors[e].r, world[s].colors[e].g, world[s].colors[e].b>>
          /\ canvas[s][e + 1].x = world[s].positions[e].x
          /\ canvas[s][e + 1].y = world[s].positions[e].y
          /\ canvas[s][e + 1].width = world[s].sizes[e].width
          /\ canvas[s][e + 1].height = world[s].sizes[e].height

C17_OnlyColorChanges ==
    [][(\/ last'.op = "click" /\ \E x \in {last'.x}, y \in {last'.y} : ClickListener(1, x, y)
        \/ \E p \in {last'.payload} \cap Payloads : OnMessage(1, p))
       => /\ world'[1].positions = world[1].positions
          /\ world'[1].sizes = world[1].sizes
          /\ DOMAIN world'[1].colors = DOMAIN world[1].colors
          /\ world'[1].next_entity_id = world[1].next_entity_id
      ]_vars

\* A click on the initialised grid turned a cell black.
C17_Witness ==
    /\ inits[1] = 1
    /\ events = 1
    /\ last.op = "click"
    /\ \E e \in DOMAIN world[1].colors : world[1].colors[e] = Black
    /\ world[1].next_entity_id = GridSize * GridSize

(* -------------------------------- C18 ---------------------------------- *)

\* C18: an inbound payload that decodes as Click { x, y }, with (x, y) inside
\* a cell, changes no World, draws nothing, sends nothing and raises no panic.
C18_InboundClickIsNoOp ==
    [][\A p \in {last'.payload} \cap ClickPayloads :
          OnMessage(1, p)
          => (world' = world /\ wire' = wire /\ canvas' = canvas /\ ~trapped'[1])
      ]_vars

\* A Click message arrived at the initialised grid; cell 0 is still white.
C18_Witness ==
    /\ last.op = "message"
    /\ last.payload \in ClickPayloads
    /\ inits[1] = 1
    /\ from_str(last.payload).ok
    /\ from_str(last.payload).msg.type = "Click"
    /\ world[1].colors[0] = White

(* -------------------------------- C19 ---------------------------------- *)

\* C19: the handling of an inbound payload puts nothing on the receiver's
\* wire (no echo, no rebroadcast), and once the clicks have ended every
\* payload in flight is delivered: the wires end up empty for good.
C19_NoEchoAndQuiescence ==
    /\ [][\A s \in {last'.s} \cap Sessions : Deliver(s) => wire'[s] = wire[s]]_vars
    /\ <>[]NoneInFlight

\* Every click of the budget was made and all their updates have been delivered.
C19_Witness ==
    /\ events = MaxFairClicks
    /\ last.op = "message"
    /\ NoneInFlight
    /\ \E e \in DOMAIN world[1].colors : world[1].colors[e] = Black

(* -------------------------------- C20 ---------------------------------- *)

\* C20: every handler finds the World unborrowed and leaves it unborrowed, so
\* no borrow_mut or borrow panics, and an inbound ColorUpdate for an entity
\* that has a Color gets its try_borrow_mut and is applied.
C20_BorrowsNeverConflict ==
    [][/\ borrow'[1] = "unused"
       /\ ~trapped'[1]
       /\ \A p \in {last'.payload} \cap WellFormedUpdates :
             (OnMessage(1, p) /\ p.entity.v \in DOMAIN world[1].colors)
             => /\ RefCell_can_borrow_mut(borrow[1])
                /\ world'[1].colors[p.entity.v] = [r |-> p.r.v, g |-> p.g.v, b |-> p.b.v]
      ]_vars

\* init ran twice, render ran, and then an inbound update was applied.
C20_Witness ==
    /\ inits[1] = 2
    /\ last.op = "message"
    /\ last.payload = to_string(MsgColorUpdate(GridSize * GridSize - 1, 10, 20, 30))
    /\ world[1].colors[GridSize * GridSize - 1] = [r |-> 10, g |-> 20, b |-> 30]
    /\ borrow[1] = "unused"
    /\ ~trapped[1]

====
